---- MODULE Spec2Model ----
(***************************************************************************)
(* Model of the research agent of src/agent.py: the LangGraph workflow     *)
(* generate_queries -> search_sections -> reflect -> write_report -> END   *)
(* over the shared AgentState dictionary.                                  *)
(*                                                                         *)
(* Text returned by the text-generation collaborator is a sequence of      *)
(* tokens: the two code-fence markers the parser looks for, a JSON         *)
(* document (carrying the value json.loads would produce for it) and free  *)
(* prose.  Whitespace is not represented, so str.strip() has nothing to    *)
(* remove.  Python None is the record None, a Python dict is a function    *)
(* whose DOMAIN is the set of keys present, a list is a sequence.          *)
(***************************************************************************)
EXTENDS Integers, Sequences, FiniteSets, TLC

VARIABLES state, pc, error, invoked, checkpoint, first, script

vars == <<state, pc, error, invoked, checkpoint, first, script>>

\* ---------------------------------------------------------------- bounds
MaxQueries == 2

MaxSections == 2

MaxHits == 4

\* ------------------------------------------------------ program constants
MAX_ITERATIONS == 10

TAVILY_MAX_RESULTS == 5

\* ------------------------------------------------------------- utilities
None == [none |-> TRUE]

EmptyDict == [k \in {} |-> <<>>]

Min(a, b) == IF a < b THEN a ELSE b

\* dict.get(key, default)
Get(d, key, default) == IF key \in DOMAIN d THEN d[key] ELSE default

\* all sequences over S of length at most n
SeqsUpTo(S, n) == UNION {[1..k -> S] : k \in 0..n}

\* ---------------------------------------------------------------- tokens
\* "fence_json" is the marker of three backticks followed by json, "fence" the
\* marker of three backticks alone.
FenceJson == [tok |-> "fence_json"]

Fence == [tok |-> "fence"]

Prose(s) == [tok |-> "prose", text |-> s]

Json(v) == [tok |-> "json", val |-> v]

\* JSON values as json.loads returns them
JObject(d) == [t |-> "object", obj |-> d]

JArray(a) == [t |-> "array", arr |-> a]

JNumber(n) == [t |-> "number", num |-> n]

JString(s) == [t |-> "string", str |-> s]

JBool(b) == [t |-> "bool", bool |-> b]

\* marker in content (substring test): "fence" is also found inside "fence_json"
Contains(content, marker) ==
    \E i \in 1..Len(content) :
        \/ content[i].tok = marker
        \/ marker = "fence" /\ content[i].tok = "fence_json"

\* content.split(marker): the segments between the occurrences of marker.
\* It is only applied with marker "fence" to text without a "fence_json" token.
RECURSIVE Split(_, _)
Split(content, marker) ==
    IF \A i \in 1..Len(content) : content[i].tok # marker
    THEN <<content>>
    ELSE LET k == CHOOSE i \in 1..Len(content) :
                      /\ content[i].tok = marker
                      /\ \A j \in 1..(i - 1) : content[j].tok # marker
         IN  <<SubSeq(content, 1, k - 1)>>
                 \o Split(SubSeq(content, k + 1, Len(content)), marker)

\* the fence stripping both parsers share
StripFences(content) ==
    IF Contains(content, "fence_json")
    THEN Split(Split(content, "fence_json")[2], "fence")[1]
    ELSE IF Contains(content, "fence")
         THEN Split(Split(content, "fence")[2], "fence")[1]
         ELSE content

\* json.loads: exactly one JSON document and nothing else, or JSONDecodeError
JsonLoads(content) ==
    IF Len(content) = 1 /\ content[1].tok = "json"
    THEN [ok |-> TRUE, val |-> content[1].val]
    ELSE [ok |-> FALSE]

\* ------------------------------------------------------------- messages
HumanMessage(content) == [type |-> "human", content |-> content]

AIMessage(content) == [type |-> "ai", content |-> content]

\* what a collaborator call does instead of returning
Raise == [raise |-> TRUE]

\* shallow merge of a node return value into the state: a key the state did
\* not hold is added
Merge(st, update) ==
    [k \in DOMAIN st \cup DOMAIN update |->
        IF k \in DOMAIN update THEN update[k] ELSE st[k]]

\* what appending in place to the lists of the state leaves in it: a list the
\* state does not hold is the default of state.get, which nothing else sees
InPlace(st, update) ==
    [k \in DOMAIN st |-> IF k \in DOMAIN update THEN update[k] ELSE st[k]]

\* state["research_query"] raises KeyError on a state without the key
HasQuery(st) == "research_query" \in DOMAIN st

\* what a node hands back to the engine: the state as the node leaves it and
\* the exception that propagates out of it ("none" when it returns)
\* and the collaborator calls it made, in order
Returned(st) == [state |-> st, error |-> "none", calls |-> <<>>]

Raised(st, exception) == [state |-> st, error |-> exception, calls |-> <<>>]

\* one call of the text-generation collaborator and what it did
LlmCall(response) == [to |-> "llm", response |-> response]

\* one call of the search tool and what it did
SearchCall(query, search) ==
    [to |-> "search", query |-> query, response |-> search]

\* the call write_report makes: the research content is the part of its
\* prompt that depends on the state
ReportCall(research_content, response) ==
    [to |-> "llm", research_content |-> research_content, response |-> response]

\* the node made these calls before it went on to out
After(made, out) == [out EXCEPT !.calls = made \o @]

\* outcome of one collaborator call
Replied(content) == [raise |-> FALSE, content |-> content]

Found(results) == [raise |-> FALSE, results |-> results]

\* ---------------------------------------------------- strings of search hits
\* A string of a search hit is known by what it is and by its length.
Str(kind, of, len) == [kind |-> kind, of |-> of, len |-> len]

Lit(text, len) == Str(text, <<"", 0>>, len)

\* s[:n]
Truncate(s, n) == [s EXCEPT !.len = Min(s.len, n)]

\* seq[:n]
Take(seq, n) == SubSeq(seq, 1, Min(Len(seq), n))

\* the texts of f"Section {n}"
SectionNumbers == <<"Section 1", "Section 2", "Section 3", "Section 4",
                    "Section 5", "Section 6">>

\* the label numbered one too high
SynthLabelOffByOne(i) == SectionNumbers[i + 2]

\* f"Section {i+1}" for the 0-based index i
SynthLabel(i) == SectionNumbers[i + 1]

\* ------------------------------------------------- NODE 1: generate_queries
\* the short circuit tested on the wrong list
AlreadyPlannedByQueries(st) == Get(st, "search_queries", <<>>) # <<>>

\* "if sections:"
AlreadyPlanned(st) == Get(st, "sections", <<>>) # <<>>

generate_queries(st, response) ==
    IF ~HasQuery(st)
    THEN Raised(st, "KeyError")
    ELSE
    LET query == st.research_query
    IN  IF AlreadyPlanned(st)
        THEN Returned(st)
        ELSE After(<<LlmCall(response)>>,
             IF response.raise
        THEN Raised(st, "CollaboratorError")
        ELSE LET loaded == JsonLoads(StripFences(response.content))
                 log == Get(st, "messages", <<>>)
                            \o <<AIMessage(response.content)>>
             IN  IF ~loaded.ok
                 THEN Returned(Merge(st,
                          [search_queries |-> <<query>>,
                           sections |-> <<"Overview", "Details", "Conclusion">>,
                           messages |-> log]))
                 ELSE IF loaded.val.t # "object"
                 THEN Raised(st, "AttributeError")
                 ELSE Returned(Merge(st,
                          [search_queries |->
                               Get(loaded.val.obj, "queries", JArray(<<>>)).arr,
                           sections |->
                               Get(loaded.val.obj, "sections", JArray(<<>>)).arr,
                           messages |-> log])))

\* -------------------------------------------------- NODE 2: search_sections
\* the entry appended to sources for one search result
SourceOf(result) ==
    [url |-> Get(result, "url", Lit("", 0)),
     title |-> Get(result, "title", Lit("", 0)),
     content |-> Truncate(Get(result, "content", Lit("", 0)), 500)]

IsDict(result) == "nondict" \notin DOMAIN result

\* the loop "for result in search_results" over results k..Len
RECURSIVE ExtractSources(_, _, _)
ExtractSources(sources, search_results, k) ==
    IF k > Len(search_results)
    THEN sources
    ELSE ExtractSources(
             IF IsDict(search_results[k])
             THEN Append(sources, SourceOf(search_results[k]))
             ELSE sources,
             search_results, k + 1)

\* the list of a section overwritten by its latest result
StoreResultReplacing(research_results, section, entry) ==
    [s \in DOMAIN research_results \cup {section} |->
        IF s = section THEN <<entry>> ELSE research_results[s]]

\* research_results[section].append(...), the list created when absent
StoreResult(research_results, section, entry) ==
    [s \in DOMAIN research_results \cup {section} |->
        IF s = section
        THEN Append(Get(research_results, section, <<>>), entry)
        ELSE research_results[s]]

\* The loop "for i, query in enumerate(queries)" from the 0-based index i on.
\* research_results and sources are the objects the state holds, so what the
\* loop appends is in the state whether or not the loop finishes.
\* calls[i + 1] holds the outcomes of the two collaborator calls of query i.
RECURSIVE QueryLoop(_, _, _, _, _, _)
QueryLoop(queries, sections, research_results, sources, calls, i) ==
    IF i >= Len(queries)
    THEN [research_results |-> research_results, sources |-> sources,
          error |-> "none", calls |-> <<>>]
    ELSE LET query == queries[i + 1]
             section == IF i < Len(sections) THEN sections[i + 1]
                                             ELSE SynthLabel(i)
             search == calls[i + 1].search
             llm == calls[i + 1].summary
         IN  IF search.raise
             THEN [research_results |-> research_results, sources |-> sources,
                   error |-> "CollaboratorError",
                   calls |-> <<SearchCall(query, search)>>]
             ELSE LET search_results == search.results
                      sources2 == ExtractSources(sources, search_results, 1)
                      top3 == Take(search_results, 3)
                  IN  IF \E k \in 1..Len(top3) : ~IsDict(top3[k])
                      THEN [research_results |-> research_results,
                            sources |-> sources2, error |-> "AttributeError",
                            calls |-> <<SearchCall(query, search)>>]
                      ELSE IF llm.raise
                      THEN [research_results |-> research_results,
                            sources |-> sources2, error |-> "CollaboratorError",
                            calls |-> <<SearchCall(query, search), LlmCall(llm)>>]
                      ELSE After(<<SearchCall(query, search), LlmCall(llm)>>,
                               QueryLoop(queries, sections,
                                   StoreResult(research_results, section,
                                       [query |-> query,
                                        summary |-> llm.content,
                                        raw_results |-> top3]),
                                   sources2, calls, i + 1))

\* counting once per query instead of once per invocation
NextIterationPerQuery(st) ==
    Get(st, "iteration_count", 0) + Len(Get(st, "search_queries", <<>>))

\* the value returned for iteration_count
NextIteration(st) == Get(st, "iteration_count", 0) + 1

search_sections(st, calls) ==
    LET queries == Get(st, "search_queries", <<>>)
    IN  IF queries = <<>>
        THEN Returned(st)
        ELSE LET loop == QueryLoop(queries, Get(st, "sections", <<>>),
                                   Get(st, "research_results", EmptyDict),
                                   Get(st, "sources", <<>>), calls, 0)
                 mutated == InPlace(st,
                                [research_results |-> loop.research_results,
                                 sources |-> loop.sources])
             IN  After(loop.calls,
                       IF loop.error # "none"
                       THEN Raised(mutated, loop.error)
                       ELSE Returned(Merge(mutated,
                                [research_results |-> loop.research_results,
                                 sources |-> loop.sources,
                                 iteration_count |-> NextIteration(st)])))

\* ----------------------------------------------------------- NODE 3: reflect
\* The status text built from sections and research_results goes into the
\* prompt only.  parsed.get("is_complete", score >= 8) evaluates score >= 8
\* before the lookup, so a score that is neither a number nor a boolean
\* raises TypeError.  The reply sets give is_complete as a JSON boolean only.
\* off by one at the cap: iteration > MAX_ITERATIONS
ResearchCompleteStrict(is_complete, iteration) ==
    is_complete \/ iteration > MAX_ITERATIONS

\* the value returned for research_complete
ResearchComplete(is_complete, iteration) ==
    is_complete \/ iteration >= MAX_ITERATIONS

\* completeness claimed on a reply that could not be parsed
FallbackReflectionComplete(iteration) ==
    [score |-> 5, feedback |-> JString("Unable to parse reflection"),
     is_complete |-> TRUE]

\* the except branch
FallbackReflection(iteration) ==
    [score |-> 5, feedback |-> JString("Unable to parse reflection"),
     is_complete |-> iteration >= MAX_ITERATIONS]

\* score as a number: a JSON true or false is the Python int 1 or 0
ScoreNumber(score) == IF score.t = "bool"
                      THEN (IF score.bool THEN 1 ELSE 0)
                      ELSE score.num

\* the threshold read as score > 8
DefaultCompleteAbove(score) == score > 8

\* the default of parsed.get("is_complete", score >= 8)
DefaultComplete(score) == score >= 8

reflect(st, response) ==
    IF ~HasQuery(st)
    THEN Raised(st, "KeyError")
    ELSE
    LET iteration == Get(st, "iteration_count", 0)
    IN  After(<<LlmCall(response)>>,
        IF response.raise
        THEN Raised(st, "CollaboratorError")
        ELSE LET loaded == JsonLoads(StripFences(response.content))
                 log == Get(st, "messages", <<>>)
                            \o <<AIMessage(response.content)>>
             IN  IF ~loaded.ok
                 THEN LET fallback == FallbackReflection(iteration)
                      IN  Returned(Merge(st,
                              [reflection_feedback |-> fallback.feedback,
                               confidence_score |->
                                   [num |-> fallback.score, den |-> 10],
                               research_complete |->
                                   ResearchComplete(fallback.is_complete,
                                                    iteration),
                               messages |-> log]))
                 ELSE IF loaded.val.t # "object"
                 THEN Raised(st, "AttributeError")
                 ELSE LET parsed == loaded.val.obj
                          score == Get(parsed, "score", JNumber(5))
                          feedback == Get(parsed, "feedback",
                                          JString("No feedback provided"))
                      IN  IF score.t \notin {"number", "bool"}
                          THEN Raised(st, "TypeError")
                          ELSE LET is_complete ==
                                       Get(parsed, "is_complete",
                                           JBool(DefaultComplete(
                                                     ScoreNumber(score))))
                               IN  Returned(Merge(st,
                                       [reflection_feedback |-> feedback,
                                        confidence_score |->
                                            [num |-> ScoreNumber(score),
                                             den |-> 10],
                                        research_complete |->
                                            ResearchComplete(is_complete.bool,
                                                             iteration),
                                        messages |-> log])))

\* ------------------------------------------------------ NODE 4: write_report
\* the research content block of the report prompt, section k onwards
\* the loop over the results of a section left after its first result
SummaryLinesFirstOnly(results, k) ==
    IF k > Min(Len(results), 1)
    THEN <<>>
    ELSE <<[line |-> "summary",
            content |-> Get(results[k], "summary", <<Prose("No summary")>>)]>>

RECURSIVE SummaryLines(_, _)
SummaryLines(results, k) ==
    IF k > Len(results)
    THEN <<>>
    ELSE <<[line |-> "summary",
            content |-> Get(results[k], "summary", <<Prose("No summary")>>)]>>
             \o SummaryLines(results, k + 1)

RECURSIVE SectionBlocks(_, _, _)
SectionBlocks(sections, research_results, k) ==
    IF k > Len(sections)
    THEN <<>>
    ELSE <<[line |-> "heading", text |-> sections[k]]>>
             \o (IF sections[k] \in DOMAIN research_results
                 THEN SummaryLines(research_results[sections[k]], 1)
                 ELSE <<[line |-> "placeholder"]>>)
             \o SectionBlocks(sections, research_results, k + 1)

ResearchContent(st) ==
    <<[line |-> "title", text |-> st.research_query]>>
        \o SectionBlocks(Get(st, "sections", <<>>),
                         Get(st, "research_results", EmptyDict), 1)

\* every source listed, without the cut at 10
SourceLinesAll(sources) ==
    [i \in 1..Len(sources) |->
        [tok |-> "source_line", n |-> i,
         title |-> Get(sources[i], "title", Lit("Untitled", 8)),
         url |-> Get(sources[i], "url", Lit("#", 1))]]

\* the numbered lines of the "Sources" block: enumerate(sources[:10], 1)
SourceLines(sources) ==
    [i \in 1..Len(Take(sources, 10)) |->
        [tok |-> "source_line", n |-> i,
         title |-> Get(sources[i], "title", Lit("Untitled", 8)),
         url |-> Get(sources[i], "url", Lit("#", 1))]]

\* the report step clearing the completion flag once the report is written
ReportUpdateReopening(st, report_draft, response) ==
    [report_draft |-> report_draft,
     research_complete |-> FALSE,
     messages |-> Get(st, "messages", <<>>)
                      \o <<AIMessage(response.content)>>]

\* the report step also grading the research
ReportUpdateScoring(st, report_draft, response) ==
    [report_draft |-> report_draft,
     research_complete |-> TRUE,
     confidence_score |-> [num |-> 10, den |-> 10],
     messages |-> Get(st, "messages", <<>>)
                      \o <<AIMessage(response.content)>>]

\* the dict write_report returns
ReportUpdate(st, report_draft, response) ==
    [report_draft |-> report_draft,
     research_complete |-> TRUE,
     messages |-> Get(st, "messages", <<>>)
                      \o <<AIMessage(response.content)>>]

write_report(st, response) ==
    IF ~HasQuery(st)
    THEN Raised(st, "KeyError")
    ELSE
    After(<<ReportCall(ResearchContent(st), response)>>,
    IF response.raise
    THEN Raised(st, "CollaboratorError")
    ELSE LET sources == Get(st, "sources", <<>>)
             report_draft ==
                 IF sources # <<>>
                 THEN response.content \o <<[tok |-> "sources_heading"]>>
                          \o SourceLines(sources)
                 ELSE response.content
         IN  Returned(Merge(st, ReportUpdate(st, report_draft, response))))

\* --------------------------------------------------------------- routing
\* the loop back to search_sections taken while research is incomplete
should_continue_looping(st) ==
    IF Get(st, "research_complete", FALSE) THEN "write_report" ELSE "search_sections"

should_continue_after_reflection(st) ==
    IF Get(st, "research_complete", FALSE) THEN "write_report" ELSE "write_report"

\* the two targets of the mapping swapped
ConditionalEdgesCrossed(choice) ==
    CASE choice = "search_sections" -> "write_report"
      [] choice = "write_report" -> "search_sections"

\* the mapping given to add_conditional_edges for "reflect"
ConditionalEdges(choice) ==
    CASE choice = "search_sections" -> "search_sections"
      [] choice = "write_report" -> "write_report"

\* write_report wired back to the entry point instead of END
EdgeRestarting(node) ==
    CASE node = "generate_queries" -> "search_sections"
      [] node = "search_sections" -> "reflect"
      [] node = "write_report" -> "generate_queries"

\* search_sections wired straight to write_report
EdgeSkippingReflect(node) ==
    CASE node = "generate_queries" -> "search_sections"
      [] node = "search_sections" -> "write_report"
      [] node = "write_report" -> "END"

\* add_edge(node, next)
Edge(node) ==
    CASE node = "generate_queries" -> "search_sections"
      [] node = "search_sections" -> "reflect"
      [] node = "write_report" -> "END"

\* ------------------------------------------------ what the collaborators do
Topics == {"X", "Y"}

QueryNames == <<"q1", "q2", "q3", "q4", "q5", "q6">>

SectionNames == {"A", "Section 2"}

QueryLists == {Take(QueryNames, k) : k \in 0..MaxQueries}

SectionLists == SeqsUpTo(SectionNames, MaxSections)

\* JSON objects a planner reply can carry: each key present or not
PlannerObjects ==
    {JObject([k \in keys |-> JArray(IF k = "queries" THEN q ELSE s)]) :
        keys \in SUBSET {"queries", "sections"},
        q \in QueryLists, s \in SectionLists}

\* a JSON document as the model may wrap it
Wrappings(doc) ==
    {<<Json(doc)>>,
     <<FenceJson, Json(doc), Fence>>,
     <<Fence, Json(doc), Fence>>,
     <<Prose("intro"), FenceJson, Json(doc), Fence, Prose("outro")>>,
     <<Prose("intro"), Json(doc)>>,
     <<Fence, Json(JArray(<<>>)), Fence, FenceJson, Json(doc), Fence>>}

PlannerSample ==
    JObject([k \in {"queries", "sections"} |->
                JArray(IF k = "queries" THEN Take(QueryNames, MaxQueries)
                                        ELSE <<"A">>)])

PlannerContents ==
    {<<Json(o)>> : o \in PlannerObjects}
        \cup Wrappings(PlannerSample)
        \cup Wrappings(JArray(<<"q1">>))
        \cup {<<>>, <<Prose("no json here")>>}

ScoreValues ==
    {JNumber(n) : n \in {-1, 0, 7, 8, 10, 11}} \cup {JString("7"), JBool(TRUE)}

\* JSON objects a reflection reply can carry: each key present or not
ReflectionObjects ==
    {JObject([k \in keys |->
                 CASE k = "score" -> score
                   [] k = "feedback" -> JString("needs more sources")
                   [] k = "is_complete" -> JBool(flag)]) :
        keys \in SUBSET {"score", "feedback", "is_complete"},
        score \in ScoreValues, flag \in BOOLEAN}

ReflectionSample ==
    JObject([k \in {"score", "is_complete"} |->
                IF k = "score" THEN JNumber(7) ELSE JBool(FALSE)])

ReflectionContents ==
    {<<Json(o)>> : o \in ReflectionObjects}
        \cup Wrappings(ReflectionSample)
        \cup {<<Json(JArray(<<>>))>>, <<>>, <<Prose("looks fine to me")>>}

\* the i-th result the search tool returns for a query
Hit(query, i) ==
    IF i = 1
    THEN [url |-> Str("url", <<query, i>>, 30),
          title |-> Str("title", <<query, i>>, 20),
          content |-> Str("content", <<query, i>>, 800)]
    ELSE IF i = 2
    THEN [url |-> Str("url", <<query, i>>, 30),
          content |-> Str("content", <<query, i>>, 400)]
    ELSE [url |-> Str("url", <<query, i>>, 30),
          title |-> Str("title", <<query, i>>, 20)]

NonDict == [nondict |-> TRUE]

Hits(query, n) == [i \in 1..n |-> Hit(query, i)]

\* what one search call can do; the tool returns at most TAVILY_MAX_RESULTS
SearchOutcomes(query) ==
    {Raise}
        \cup {Found(Hits(query, n)) :
                  n \in {0, 1, Min(MaxHits, TAVILY_MAX_RESULTS)}}
        \cup {Found(<<Hit(query, 1), NonDict>>)}

\* the text the model returns when asked to summarize the results of a query
Summary(query) == <<Prose("summary of"), Prose(query)>>

SummaryOutcomes(query) == {Raise, Replied(Summary(query))}

\* the outcomes of the collaborator calls of one search_sections invocation
CallPlans(queries) ==
    {calls \in [1..Len(queries) ->
                   UNION {[search : SearchOutcomes(queries[i]),
                           summary : SummaryOutcomes(queries[i])] :
                              i \in 1..Len(queries)}] :
        \A i \in 1..Len(queries) :
            /\ calls[i].search \in SearchOutcomes(queries[i])
            /\ calls[i].summary \in SummaryOutcomes(queries[i])}

ReportOutcomes ==
    {Raise, Replied(<<Prose("report")>>),
     Replied(<<Prose("report"), Prose("## Sources")>>)}

\* ------------------------------------------------------------ the engine
\* an input that leaves the plan and what was collected to the thread
InitialStateWithoutPlan(query) ==
    [messages |-> <<HumanMessage(query)>>,
     research_query |-> query,
     research_scope |-> None,
     current_section |-> None,
     report_draft |-> <<>>,
     report_sections |-> EmptyDict,
     reflection_feedback |-> None,
     confidence_score |-> None]

\* initial_state of run_research
InitialState(query) ==
    [messages |-> <<HumanMessage(query)>>,
     research_query |-> query,
     research_scope |-> None,
     sections |-> <<>>,
     current_section |-> None,
     research_results |-> EmptyDict,
     search_queries |-> <<>>,
     report_draft |-> <<>>,
     report_sections |-> EmptyDict,
     reflection_feedback |-> None,
     iteration_count |-> 0,
     research_complete |-> FALSE,
     sources |-> <<>>,
     confidence_score |-> None]

\* the keys of AgentState
AgentStateKeys ==
    {"messages", "research_query", "research_scope", "sections",
     "current_section", "research_results", "search_queries", "report_draft",
     "report_sections", "reflection_feedback", "iteration_count",
     "research_complete", "sources", "confidence_score"}

\* the checkpoint store of a thread nothing has run on
NoCheckpoint == EmptyDict

\* agent.invoke(input, config) on a thread whose checkpoint holds saved: no
\* key of AgentState has a reducer, so each key of the input replaces the
\* saved value and a key the input lacks keeps it; a key neither holds is
\* not in the state; the run starts at the entry point
Invoke(saved, input) ==
    [key \in AgentStateKeys \cap (DOMAIN saved \cup DOMAIN input) |->
        IF key \in DOMAIN input THEN input[key] ELSE saved[key]]

\* the first run made through an agent: checkpoint is what the checkpointer
\* holds for thread "1", first the outcome of the run before this one when
\* this run is given the collaborator outcomes of that run (None when there
\* is no run before, NotCompared when the collaborators answer anew) and
\* script the outcomes still to come
Init ==
    /\ \E query \in Topics : state = Invoke(NoCheckpoint, InitialState(query))
    /\ pc = "generate_queries"
    /\ error = "none"
    /\ invoked = <<>>
    /\ checkpoint = state
    /\ first = None
    /\ script = <<>>

\* a run before this one whose outcome is not kept
NotCompared == [compared |-> FALSE]

\* this run is given the collaborator outcomes of the run before
Replaying == first # None /\ first # NotCompared

\* the collaborators do in this run what they did in the run before,
\* whatever they are asked
Scripted(calls, expected) ==
    /\ Len(calls) <= Len(expected)
    /\ \A k \in 1..Len(calls) :
           /\ calls[k].to = expected[k].to
           /\ calls[k].response = expected[k].response

\* the engine runs one node, merges what it returns and follows the edge;
\* an exception leaves the run with no further step.  invoked is the
\* record of the collaborator calls made so far.
Step(out, next) ==
    /\ Replaying => Scripted(out.calls, script)
    /\ state' = out.state
    /\ error' = out.error
    /\ invoked' = invoked \o out.calls
    /\ pc' = IF out.error = "none" THEN next ELSE "failed"
    /\ checkpoint' = IF out.error = "none" THEN out.state ELSE checkpoint
    /\ script' = SubSeq(script, Min(Len(out.calls), Len(script)) + 1, Len(script))
    /\ first' = first

\* what the text-generation collaborator can do at this call: any of
\* outcomes in a first run, what the script says in a run that repeats one
LlmOutcomes(outcomes) ==
    IF ~Replaying
    THEN outcomes
    ELSE IF script # <<>> /\ script[1].to = "llm"
         THEN {script[1].response}
         ELSE {}

\* the outcomes the script holds for the calls of one search_sections
\* invocation: a search and a summary per query, none past a failed call
ScriptedPlan(queries) ==
    [i \in 1..Len(queries) |->
        [search |-> IF 2 * i - 1 <= Len(script)
                    THEN script[2 * i - 1].response ELSE Raise,
         summary |-> IF 2 * i <= Len(script)
                     THEN script[2 * i].response ELSE Raise]]

SearchPlans(queries) ==
    IF ~Replaying THEN CallPlans(queries) ELSE {ScriptedPlan(queries)}

GenerateQueries ==
    /\ pc = "generate_queries"
    /\ \E response \in LlmOutcomes({Raise}
                          \cup {Replied(content) : content \in PlannerContents}) :
          Step(generate_queries(state, response), Edge("generate_queries"))

SearchSections ==
    /\ pc = "search_sections"
    /\ \E calls \in SearchPlans(state.search_queries) :
          Step(search_sections(state, calls), Edge("search_sections"))

Reflect ==
    /\ pc = "reflect"
    /\ \E response \in LlmOutcomes({Raise}
                          \cup {Replied(content) : content \in ReflectionContents}) :
          LET out == reflect(state, response)
          IN  Step(out,
                   ConditionalEdges(should_continue_after_reflection(out.state)))

WriteReport ==
    /\ pc = "write_report"
    /\ \E response \in LlmOutcomes(ReportOutcomes) :
          Step(write_report(state, response), Edge("write_report"))

Next == GenerateQueries \/ SearchSections \/ Reflect \/ WriteReport

Spec == Init /\ [][Next]_vars

\* The compiled graph (and each node) accepts any AgentState, not only the
\* initial_state of run_research: a run entered with sections, results,
\* iterations or the completion flag already set.  run_research passes no
\* such state; they are the inputs on which the contract of a single step
\* is checked.
PriorResults ==
    [s \in {"A"} |-> <<[query |-> "q0", summary |-> Summary("q0"),
                        raw_results |-> Hits("q0", 1)]>>]

PriorSources == <<SourceOf(Hit("q0", 1))>>

\* one source more than the report lists
ManySources == [i \in 1..(10 + 1) |-> SourceOf(Hit("q0", i))]

Entered(plan, found, iteration, complete) ==
    [InitialState("X") EXCEPT !.sections = plan[1],
                              !.search_queries = plan[2],
                              !.research_results = found[1],
                              !.sources = found[2],
                              !.iteration_count = iteration,
                              !.research_complete = complete]

PlannedEntries == {<<<<"A">>, <<>>>>, <<<<"A">>, Take(QueryNames, MaxQueries)>>}

\* states entered with the plan made, with more sources than a report lists,
\* and before planning with the iteration cap already reached
EnteredStates ==
    {Entered(plan, found, iteration, complete) :
        plan \in PlannedEntries,
        found \in {<<EmptyDict, <<>>>>, <<PriorResults, PriorSources>>},
        iteration \in {0, MAX_ITERATIONS - 1, MAX_ITERATIONS, MAX_ITERATIONS + 1},
        complete \in BOOLEAN}
    \cup
    {Entered(plan, <<PriorResults, ManySources>>, 0, FALSE) :
        plan \in PlannedEntries}
    \cup
    {Entered(<<<<>>, <<>>>>, <<EmptyDict, <<>>>>, MAX_ITERATIONS, FALSE)}

InitAnyState ==
    /\ state \in EnteredStates
    /\ pc = "generate_queries"
    /\ error = "none"
    /\ invoked = <<>>
    /\ checkpoint = state
    /\ first = None
    /\ script = <<>>

SpecAnyState == InitAnyState /\ [][Next]_vars

\* A second run_research call on the same agent, as the front end makes for
\* each query: the same graph, the same checkpointer and the thread id "1".
\* checkpoint is the entry of that thread.  In the run that follows the
\* collaborators either answer anew or do what they did in the first run.
RunResearch ==
    /\ pc \in {"END", "failed"}
    /\ first = None
    /\ \E query \in Topics :
          state' = Invoke(checkpoint, InitialState(query))
    /\ checkpoint' = state'
    /\ pc' = "generate_queries"
    /\ error' = "none"
    /\ \/ /\ first' = [state |-> state, pc |-> pc, error |-> error]
          /\ script' = invoked
       \/ /\ first' = NotCompared
          /\ script' = <<>>
    /\ invoked' = <<>>

InitTwoRuns ==
    /\ state = Invoke(NoCheckpoint, InitialState("X"))
    /\ pc = "generate_queries"
    /\ error = "none"
    /\ invoked = <<>>
    /\ checkpoint = state
    /\ first = None
    /\ script = <<>>

NextTwoRuns == Next \/ RunResearch

SpecTwoRuns == InitTwoRuns /\ [][NextTwoRuns]_vars

\* ===================================================================
\* Properties
\* ===================================================================
\* the reply of the text-generation call a node has just logged
LastReply(st) == st.messages[Len(st.messages)].content

Finished(node) == pc = node /\ pc' # node /\ pc' # "failed"

\* C1: for every non-empty research query and every reply of the model, after
\* generate_queries has run on a state with empty sections both sections and
\* search_queries are non-empty.
C1_PlannerOutputNonEmpty ==
    pc = "search_sections" =>
        state.sections # <<>> /\ state.search_queries # <<>>

\* C2: after reflect the routing always selects write_report and never the
\* declared edge back to search_sections, whatever research_complete,
\* confidence_score and iteration_count are.
C2_AlwaysWriteReport ==
    [][Finished("reflect") => pc' = "write_report"]_vars

C2_Witness ==
    /\ pc = "write_report"
    /\ state.confidence_score # None
    /\ ~state.research_complete
    /\ state.iteration_count < MAX_ITERATIONS

\* C3: the nodes run strictly in the order generate_queries, search_sections,
\* reflect, write_report, END; a run leaves this chain only by an exception
\* that ends it, and generate_queries is never entered a second time.
C3_StepOrder ==
    [][\/ pc' = pc
       \/ pc' = "failed" /\ pc \notin {"END", "failed"}
       \/ <<pc, pc'>> \in {<<"generate_queries", "search_sections">>,
                           <<"search_sections", "reflect">>,
                           <<"reflect", "write_report">>,
                           <<"write_report", "END">>}]_vars

C3_Witness ==
    /\ pc = "END"
    /\ state.report_draft # <<>>
    /\ state.iteration_count = 1

\* C4: when reflect runs with iteration_count >= MAX_ITERATIONS,
\* research_complete is true in the state it returns, whatever the reply.
C4_CapForcesComplete ==
    [][(Finished("reflect") /\ state.iteration_count >= MAX_ITERATIONS)
          => state'.research_complete]_vars

C4_Witness ==
    /\ pc = "write_report"
    /\ state.iteration_count = MAX_ITERATIONS
    /\ state.research_complete
    /\ LastReply(state) =
           <<Json(JObject([score |-> JNumber(0), is_complete |-> JBool(FALSE)]))>>

\* C5 as stated: iteration_count increases by exactly 1 on every invocation
\* of search_sections, and no step decreases it.
C5_IncrementEveryInvocation ==
    [][/\ Finished("search_sections")
              => state'.iteration_count = state.iteration_count + 1
       /\ state'.iteration_count >= state.iteration_count]_vars

\* C5 amended: iteration_count increases by exactly 1 on every invocation of
\* search_sections that has search queries and returns, however many queries
\* it processes; an invocation with no search queries returns the state
\* unchanged; no step decreases iteration_count.
C5_IncrementPerLoop ==
    [][/\ (Finished("search_sections") /\ state.search_queries # <<>>)
              => state'.iteration_count = state.iteration_count + 1
       /\ (Finished("search_sections") /\ state.search_queries = <<>>)
              => state' = state
       /\ state'.iteration_count >= state.iteration_count]_vars

C5_Witness ==
    /\ pc = "reflect"
    /\ Len(state.search_queries) >= 2
    /\ state.iteration_count = 1
    /\ Len(state.sources) > Len(state.search_queries)

\* C6: in a run, once research_complete is true no step produces a state in
\* which it is false: the flag is false until reflect returns, and what
\* reflect sets true write_report leaves true.
C6_CompleteIsMonotonic ==
    [][state.research_complete => state'.research_complete]_vars

C6_Witness ==
    /\ pc = "END"
    /\ state.research_complete
    /\ Len(state.messages) = 4
    /\ state.messages[3].content =
           <<Json(JObject([is_complete |-> JBool(TRUE)]))>>

\* C7: a step that fails applies no partial update: the state after the
\* failure equals the state the step was entered with.
C7_FailedStepLeavesState ==
    [][(pc # "failed" /\ pc' = "failed") => state' = state]_vars

\* C8: whatever text the model returns to generate_queries or reflect, no
\* error of the parsing leaves the step; only a failed collaborator call does.
C8_ParseNeverFatal ==
    [][(pc \in {"generate_queries", "reflect"} /\ pc' = "failed")
          => error' = "CollaboratorError"]_vars

\* C9: confidence_score, whenever it is set, lies in [0, 1].
C9_ConfidenceInUnitInterval ==
    state.confidence_score # None =>
        /\ 0 <= state.confidence_score.num
        /\ state.confidence_score.num <= state.confidence_score.den

\* a planner reply that is not a JSON object carrying both expected keys
PlannerParseFails(content) ==
    LET loaded == JsonLoads(StripFences(content))
    IN  \/ ~loaded.ok
        \/ loaded.val.t # "object"
        \/ ~({"queries", "sections"} \subseteq DOMAIN loaded.val.obj)

\* C10: whenever the planner reply fails to parse, malformed or lacking the
\* expected keys, generate_queries sets search_queries to [research_query]
\* and sections to ["Overview", "Details", "Conclusion"].
C10_FallbackOnParseFailure ==
    [][(/\ Finished("generate_queries")
        /\ state.sections = <<>>
        /\ PlannerParseFails(LastReply(state')))
          => /\ state'.search_queries = <<state.research_query>>
             /\ state'.sections = <<"Overview", "Details", "Conclusion">>]_vars

\* C11: generate_queries on a state whose sections is non-empty makes no
\* collaborator call and returns a state equal to its input in every field,
\* and invoking it again on that state returns the same state.
C11_PlannerIdempotent ==
    [][(pc = "generate_queries" /\ pc' # pc /\ state.sections # <<>>)
          => /\ state' = state
             /\ invoked' = invoked
             /\ error' = "none"
             /\ \A content \in PlannerContents :
                    generate_queries(state', Replied(content)) = Returned(state')]_vars

C11_Witness ==
    /\ pc = "search_sections"
    /\ state.sections = <<"A">>
    /\ state.search_queries = <<>>
    /\ state.messages = <<HumanMessage("X")>>
    /\ invoked = <<>>

\* what json.loads made of the reply a node has just logged
Loaded(st) == JsonLoads(StripFences(LastReply(st)))

ParsedObject(st) == Loaded(st).ok /\ Loaded(st).val.t = "object"

\* C12 as stated: on a parsed reflection reply research_complete is exactly
\* (the explicit completeness flag of the reply OR iteration_count >=
\* MAX_ITERATIONS); the score has no part in it.
C12_ExplicitFlagDecides ==
    [][(Finished("reflect") /\ ParsedObject(state'))
          => LET parsed == Loaded(state').val.obj
             IN  state'.research_complete =
                     (\/ /\ "is_complete" \in DOMAIN parsed
                         /\ parsed["is_complete"].bool
                      \/ state.iteration_count >= MAX_ITERATIONS)]_vars

\* C12 amended: on a parsed reflection reply research_complete is exactly
\* (f OR iteration_count >= MAX_ITERATIONS), where f is the is_complete flag
\* of the reply when it carries one and (score >= 8) when it does not, the
\* score being 5 when the reply carries none; confidence_score is score/10.
C12_FlagOrScoreDefault ==
    [][(Finished("reflect") /\ ParsedObject(state'))
          => LET parsed == Loaded(state').val.obj
                 score == IF "score" \in DOMAIN parsed
                          THEN ScoreNumber(parsed["score"]) ELSE 5
                 f == IF "is_complete" \in DOMAIN parsed
                      THEN parsed["is_complete"].bool ELSE score >= 8
             IN  /\ state'.research_complete =
                        (f \/ state.iteration_count >= MAX_ITERATIONS)
                 /\ state'.confidence_score = [num |-> score, den |-> 10]]_vars

C12_Witness ==
    /\ pc = "write_report"
    /\ state.iteration_count < MAX_ITERATIONS
    /\ state.research_complete
    /\ LastReply(state) = <<Json(JObject([score |-> JNumber(8)]))>>

\* C13: on a reflection reply that cannot be parsed, reflect sets
\* confidence_score to 0.5, reflection_feedback to "Unable to parse
\* reflection" and research_complete to exactly (iteration_count >=
\* MAX_ITERATIONS).
C13_FallbackReflection ==
    [][(Finished("reflect") /\ ~Loaded(state').ok)
          => /\ state'.confidence_score = [num |-> 5, den |-> 10]
             /\ state'.reflection_feedback = JString("Unable to parse reflection")
             /\ state'.research_complete =
                    (state.iteration_count >= MAX_ITERATIONS)]_vars

C13_Witness ==
    /\ pc = "write_report"
    /\ state.iteration_count = MAX_ITERATIONS - 1
    /\ ~state.research_complete
    /\ state.reflection_feedback = JString("Unable to parse reflection")
    /\ state.confidence_score = [num |-> 5, den |-> 10]

\* C14: the report carries the "Sources" block if and only if sources is
\* non-empty when write_report runs; the block then lists the first
\* min(10, len(sources)) sources, numbered from 1, in insertion order.
C14_SourcesBlock ==
    [][Finished("write_report")
          => LET body == LastReply(state')
                 report == state'.report_draft
                 n == Min(10, Len(state.sources))
             IN  /\ (\E k \in 1..Len(report) : report[k].tok = "sources_heading")
                        <=> state.sources # <<>>
                 /\ SubSeq(report, 1, Len(body)) = body
                 /\ state.sources = <<>> => report = body
                 /\ state.sources # <<>> =>
                        /\ Len(report) = Len(body) + 1 + n
                        /\ report[Len(body) + 1].tok = "sources_heading"
                        /\ \A i \in 1..n :
                               LET line == report[Len(body) + 1 + i]
                               IN  /\ line.tok = "source_line"
                                   /\ line.n = i
                                   /\ line.title = state.sources[i].title
                                   /\ line.url = state.sources[i].url]_vars

C14_Witness ==
    /\ pc = "END"
    /\ Len(state.sources) > 10
    /\ Len(state.report_draft) = Len(LastReply(state)) + 1 + 10
    /\ state.report_draft[Len(state.report_draft)].n = 10

IsPrefix(old, new) ==
    Len(old) <= Len(new) /\ SubSeq(new, 1, Len(old)) = old

\* C15: across every step the prior contents of sources, of each
\* research_results[section] list and of the message log are a prefix of
\* their contents after the step.
C15_AppendOnly ==
    [][/\ IsPrefix(state.sources, state'.sources)
       /\ IsPrefix(state.messages, state'.messages)
       /\ \A section \in DOMAIN state.research_results :
              /\ section \in DOMAIN state'.research_results
              /\ IsPrefix(state.research_results[section],
                          state'.research_results[section])]_vars

C15_Witness ==
    /\ pc = "reflect"
    /\ "A" \in DOMAIN state.research_results
    /\ Len(state.research_results["A"]) >= 2
    /\ state.research_results["A"][1].query = "q0"
    /\ Len(state.sources) > Len(PriorSources)
    /\ state.sources[1] = PriorSources[1]

\* C16: after a run every reply the text-generation collaborator gave during
\* it (planner, each per-query summary, reflection, report) is in the message
\* log.
C16_EveryReplyLogged ==
    pc = "END" =>
        \A i \in 1..Len(invoked) :
            (invoked[i].to = "llm" /\ ~invoked[i].response.raise)
                => \E k \in 1..Len(state.messages) :
                       /\ state.messages[k].type = "ai"
                       /\ state.messages[k].content = invoked[i].response.content

\* C17: report_draft is empty in every state before write_report completes
\* and changes only in that step, which runs once, sets research_complete and
\* leads to END; at END nothing changes any more.
C17_ReportSetOnce ==
    /\ [](pc # "END" => state.report_draft = <<>>)
    /\ [][/\ state'.report_draft # state.report_draft
               => pc = "write_report" /\ state.report_draft = <<>>
          /\ Finished("write_report")
               => pc' = "END" /\ state'.research_complete
          /\ pc' = "write_report" => pc \in {"reflect", "write_report"}
          /\ pc = "END" => (state' = state /\ pc' = "END")]_vars

C17_Witness ==
    /\ pc = "END"
    /\ state.report_draft # <<>>
    /\ state.research_complete
    /\ state.reflection_feedback = JString("Unable to parse reflection")

\* the fields a node may change
Owned(node) ==
    CASE node = "generate_queries" -> {"search_queries", "sections", "messages"}
      [] node = "search_sections" ->
             {"research_results", "sources", "iteration_count"}
      [] node = "reflect" ->
             {"reflection_feedback", "confidence_score", "research_complete",
              "messages"}
      [] node = "write_report" ->
             {"report_draft", "research_complete", "messages"}
      [] OTHER -> {}

\* C18: each step changes only its own fields and leaves every other field
\* unchanged; research_query never changes and confidence_score changes only
\* in reflect.
C18_Frame ==
    [][/\ \A key \in DOMAIN state :
              state'[key] # state[key] => key \in Owned(pc)
       /\ DOMAIN state' = DOMAIN state
       /\ state'.research_query = state.research_query
       /\ state'.confidence_score # state.confidence_score => pc = "reflect"]_vars

C18_Witness ==
    /\ pc = "END"
    /\ state.sections # <<>>
    /\ state.sources # <<>>
    /\ state.confidence_score # None
    /\ state.report_draft # <<>>
    /\ state.research_scope = None
    /\ state.report_sections = EmptyDict

\* the label the claim gives the query at the 0-based index i
OwningSection(st, i) ==
    IF i < Len(st.sections) THEN st.sections[i + 1] ELSE SectionNumbers[i + 1]

\* C19: search_sections appends the result of the query at index i to
\* research_results[sections[i]] when i < len(sections) and to
\* research_results["Section i+1"] otherwise; after one invocation on a state
\* without prior results the result entries number len(search_queries).
C19_ResultsBySection ==
    [][(Finished("search_sections") /\ state.research_results = EmptyDict)
          => LET results == state'.research_results
                 n == Len(state.search_queries)
             IN  /\ DOMAIN results = {OwningSection(state, i) : i \in 0..(n - 1)}
                 /\ \A i \in 0..(n - 1) :
                        \E k \in 1..Len(results[OwningSection(state, i)]) :
                            results[OwningSection(state, i)][k].query
                                = state.search_queries[i + 1]
                 /\ Cardinality(UNION {{<<section, k>> :
                                            k \in 1..Len(results[section])} :
                                       section \in DOMAIN results}) = n]_vars

C19_Witness ==
    /\ pc = "reflect"
    /\ state.sections = <<"A">>
    /\ Len(state.search_queries) >= 2
    /\ DOMAIN state.research_results = {"A", "Section 2"}
    /\ state.research_results["Section 2"][1].query = "q2"

\* what the reflection reply alone says about completeness
ReplySaysComplete(st) ==
    IF ~Loaded(st).ok
    THEN FALSE
    ELSE LET parsed == Loaded(st).val.obj
         IN  IF "is_complete" \in DOMAIN parsed
             THEN parsed["is_complete"].bool
             ELSE (IF "score" \in DOMAIN parsed
                   THEN ScoreNumber(parsed["score"]) ELSE 5) >= 8

\* C20: in a run search_sections is entered once only, iteration_count never
\* exceeds 1 and never reaches MAX_ITERATIONS, and research_complete after
\* reflect is what the reflection reply alone says.
C20_CapNeverReached ==
    /\ [](state.iteration_count <= 1 /\ state.iteration_count < MAX_ITERATIONS)
    /\ [][/\ (pc' = "search_sections" /\ pc # "search_sections")
               => (pc = "generate_queries" /\ state.iteration_count = 0)
          /\ Finished("reflect")
               => state'.research_complete = ReplySaysComplete(state')]_vars

C20_Witness ==
    /\ pc = "write_report"
    /\ state.iteration_count = 1
    /\ ~state.research_complete
    /\ state.confidence_score = [num |-> 10, den |-> 10]

\* the research content write_report has just put into its prompt
LastResearchContent(calls) == calls[Len(calls)].research_content

\* the elements of a list
Elements(seq) == {seq[k] : k \in 1..Len(seq)}

\* the block has a line holding this summary text
ContainsSummary(block, summary) ==
    \E j \in 1..Len(block) :
        block[j].line = "summary" /\ block[j].content = summary

\* C21: the research content write_report builds contains a collected
\* summary if and only if the label it is stored under is an element of
\* sections, so a summary under a synthesized label is absent unless sections
\* holds that label; every section without stored results has the placeholder
\* line after its heading; the block holds nothing else but the title.
C21_ContentBySections ==
    [][(pc = "write_report" /\ pc' # pc)
          => LET block == LastResearchContent(invoked')
                 sections == state.sections
                 results == state.research_results
                 shown == {k \in 1..Len(sections) : sections[k] \in DOMAIN results}
             IN  /\ \A label \in DOMAIN results :
                        \A e \in 1..Len(results[label]) :
                            ContainsSummary(block, results[label][e].summary)
                                <=> label \in Elements(sections)
                 /\ \A k \in 1..Len(sections) :
                        sections[k] \notin DOMAIN results
                            => \E j \in 1..(Len(block) - 1) :
                                   /\ block[j] = [line |-> "heading",
                                                  text |-> sections[k]]
                                   /\ block[j + 1] = [line |-> "placeholder"]
                 /\ block[1] = [line |-> "title", text |-> state.research_query]
                 /\ Cardinality({j \in 1..Len(block) : block[j].line = "heading"})
                        = Len(sections)
                 /\ Cardinality({j \in 1..Len(block) : block[j].line = "placeholder"})
                        = Len(sections) - Cardinality(shown)
                 /\ Cardinality({j \in 1..Len(block) : block[j].line = "summary"})
                        = Cardinality(UNION {{<<k, e>> :
                                                 e \in 1..Len(results[sections[k]])} :
                                             k \in shown})]_vars

C21_Witness ==
    /\ pc = "END"
    /\ state.sections = <<"A">>
    /\ DOMAIN state.research_results = {"A", "Section 2"}
    /\ ContainsSummary(LastResearchContent(invoked), Summary("q1"))
    /\ ~ContainsSummary(LastResearchContent(invoked), Summary("q2"))
    /\ state.research_results["Section 2"][1].summary = Summary("q2")

\* a second run has just been started
RunStarts == first = None /\ first' # None

SecondRun == first # None

SameQuery == Replaying /\ state.research_query = first.state.research_query

\* C22: a second run_research call through the same agent and thread starts
\* generate_queries with empty sections, search_queries, research_results
\* and sources, iteration_count 0 and research_complete false, whatever the
\* first run left; the planner is called again; the message log of the
\* second run opens with its own query and holds no other; and a second run
\* given the query and the collaborator outcomes of the first ends as the
\* first did, in an equal state.
C22_RunsIndependent ==
    /\ [][RunStarts
             => /\ pc' = "generate_queries"
                /\ DOMAIN state' = AgentStateKeys
                /\ state'.sections = <<>>
                /\ state'.search_queries = <<>>
                /\ state'.research_results = EmptyDict
                /\ state'.sources = <<>>
                /\ state'.iteration_count = 0
                /\ ~state'.research_complete
                /\ state'.report_draft = <<>>
                /\ state'.reflection_feedback = None
                /\ state'.confidence_score = None
                /\ state'.messages = <<HumanMessage(state'.research_query)>>
                /\ checkpoint' = state']_vars
    /\ [][(SecondRun /\ pc = "generate_queries" /\ pc' # pc)
             => /\ Len(invoked') = 1
                /\ invoked'[1].to = "llm"]_vars
    /\ [](SecondRun
             => /\ state.messages[1] = HumanMessage(state.research_query)
                /\ \A k \in 2..Len(state.messages) :
                       state.messages[k].type = "ai")
    /\ []((SameQuery /\ pc \in {"END", "failed"})
             => /\ script = <<>>
                /\ state = first.state
                /\ pc = first.pc
                /\ error = first.error)

C22_Witness ==
    /\ SameQuery
    /\ pc = "END"
    /\ first.pc = "END"
    /\ first.state.sources # <<>>
    /\ first.state.research_results # EmptyDict
    /\ Len(first.state.messages) = 4
    /\ state = first.state
    /\ script = <<>>

====
